---------------------------- MODULE Spec2Model ----------------------------
(***************************************************************************)
(* Model of the geometric reconstruction pipeline of                       *)
(* src/src/services/fuzzy-wall-detector.py (class FuzzyWallDetector).      *)
(*                                                                         *)
(* Number representation (the source computes in floating point):          *)
(*   angle        whole degrees, in -180..180                              *)
(*   length       whole pixels                                             *)
(*   confidence   units of 1/300 (ConfOne = 1.0)                           *)
(*   score        units of 1/3000 (ScoreOne = 1.0)                         *)
(*   distance     d is carried as (2d)^2, an exact integer for segments    *)
(*                with integer endpoints; a thickness t likewise as (2t)^2 *)
(*                (Q(t)), so that clamping and comparing stay exact        *)
(* Arithmetic is exact in these units; binary rounding is not modelled.    *)
(***************************************************************************)
EXTENDS Integers, Sequences, FiniteSets, TLC

VARIABLES
    pc,             \* position of the operation under way
    angle,          \* classify_angle_fuzzy: the angle passed in
    cls,            \* classify_angle_fuzzy: the tuple returned
    openings,       \* filter_duplicate_doors: the list passed in
    deduped,        \* filter_duplicate_doors: the list returned
    deduped_again,  \* filter_duplicate_doors applied to its own output
    segments,       \* group_parallel_lines: the list of segments passed in
    wall_groups,    \* group_parallel_lines: the groups returned
    rep_groups,     \* group_parallel_lines on one representative per group
    wall_a,         \* calculate_structural_importance: a wall
    wall_b,         \* calculate_structural_importance: wall_a with one property raised
    score_a,        \* calculate_structural_importance(wall_a)
    score_b,        \* calculate_structural_importance(wall_b)
    image,          \* detect_walls_fuzzy: what cv2.imread returns for image_path
    hough,          \* detect_walls_fuzzy: what cv2.HoughLinesP returns (lines)
    candidate_walls,    \* detect_walls_fuzzy: candidate_walls
    consolidated_walls, \* detect_walls_fuzzy: consolidated_walls
    max_walls,      \* apply_structural_focus: max_walls
    found_walls,          \* detect_walls_fuzzy: walls
    found_doors,          \* detect_walls_fuzzy: doors
    found_windows,        \* detect_walls_fuzzy: windows
    found_arches,         \* detect_walls_fuzzy: arches
    raised,         \* the detection methods that raised in this run
    result          \* detect_walls_fuzzy: the dictionary returned

vars == <<pc, angle, cls, openings, deduped, deduped_again,
          segments, wall_groups, rep_groups, wall_a, wall_b, score_a, score_b,
          image, hough, candidate_walls, consolidated_walls, max_walls, found_walls,
          found_doors, found_windows, found_arches, raised, result>>

pipeVars == <<image, hough, candidate_walls, consolidated_walls, max_walls, found_walls,
              found_doors, found_windows, found_arches, raised, result>>

scoreVars == <<wall_a, wall_b, score_a, score_b>>

groupVars == <<segments, wall_groups, rep_groups>>

angleVars == <<angle, cls>>

dedupVars == <<openings, deduped, deduped_again>>

---------------------------------------------------------------------------
(* Arithmetic helpers.                                                     *)

Abs(x) == IF x < 0 THEN -x ELSE x

Min(a, b) == IF a < b THEN a ELSE b

Max(a, b) == IF a > b THEN a ELSE b

(* (2t)^2: the exact carrier of a distance or thickness t. *)
Q(t) == 4 * t * t

ConfOne == 300

ScoreOne == 3000

---------------------------------------------------------------------------
(* classify_angle_fuzzy (lines 802-821).                                   *)

(* max(floor, 1.0 - deviation / span) in confidence units. *)
BandConfidence(deviation, span, floor) ==
    Max(floor, ConfOne - (ConfOne * deviation) \div span)

classify_angle_fuzzy_overlap(a) ==
    LET is_horizontal == (Abs(a) < 15 \/ Abs(a) > 165)
        is_vertical   == (50 < Abs(a) /\ Abs(a) < 105)
        is_diagonal   == (35 < Abs(a) /\ Abs(a) < 55) \/ (125 < Abs(a) /\ Abs(a) < 145)
    IN  [is_horizontal |-> is_horizontal, is_vertical |-> is_vertical,
         is_diagonal |-> is_diagonal, confidence |-> ConfOne]

classify_angle_fuzzy(a) ==
    LET is_horizontal == (Abs(a) < 15 \/ Abs(a) > 165)
        is_vertical   == (75 < Abs(a) /\ Abs(a) < 105)
        is_diagonal   == (35 < Abs(a) /\ Abs(a) < 55) \/ (125 < Abs(a) /\ Abs(a) < 145)
        confidence ==
            IF is_horizontal
            THEN BandConfidence(Min(Abs(a), Abs(Abs(a) - 180)), 15, 150)
            ELSE IF is_vertical
            THEN BandConfidence(Abs(Abs(a) - 90), 15, 150)
            ELSE IF is_diagonal
            THEN BandConfidence(Min(Abs(Abs(a) - 45), Abs(Abs(a) - 135)), 20, 120)
            ELSE ConfOne
    IN  [is_horizontal |-> is_horizontal, is_vertical |-> is_vertical,
         is_diagonal |-> is_diagonal, confidence |-> confidence]

NoClass ==
    [is_horizontal |-> FALSE, is_vertical |-> FALSE, is_diagonal |-> FALSE,
     confidence |-> 0]

(* Every angle atan2 can return, in whole degrees, and -180. *)
Angles == -180 .. 180

AngleIdle == angle = 0 /\ cls = NoClass

AngleInit ==
    /\ pc = "angle_in"
    /\ angle \in Angles
    /\ cls = NoClass

ClassifyAngle ==
    /\ pc = "angle_in"
    /\ cls' = classify_angle_fuzzy(angle)
    /\ pc' = "angle_out"
    /\ UNCHANGED <<angle, dedupVars, groupVars, scoreVars, pipeVars>>

---------------------------------------------------------------------------
(* Openings (doors, windows, arches).  position is in quarter pixels, so   *)
(* that the centre between two wall midpoints (get_opening_center) is an   *)
(* exact integer pair.                                                     *)

(* The squared distance of two positions, in quarter pixels squared. *)
PosDist2(p, q) == (p[1] - q[1]) * (p[1] - q[1]) + (p[2] - q[2]) * (p[2] - q[2])

(* distance < 30 (line 781): 30 px = 120 quarter pixels. *)
Within30(p, q) == PosDist2(p, q) < 120 * 120

(* list.remove(e): drops the first element equal to e. *)
ListRemove(s, e) ==
    LET first == CHOOSE i \in 1..Len(s) : s[i] = e /\ \A j \in 1..(i - 1) : s[j] # e
    IN  SubSeq(s, 1, first - 1) \o SubSeq(s, first + 1, Len(s))

(* The inner loop of filter_duplicate_doors (lines 773-790) for one door:  *)
(* the first member of filtered within 30 px decides.                      *)
DedupOne(filtered, door) ==
    LET near == {i \in 1..Len(filtered) :
                    Within30(door.position, filtered[i].position)}
    IN  IF near = {} THEN Append(filtered, door)
        ELSE LET existing == filtered[CHOOSE i \in near : \A j \in near : i <= j]
             IN  IF door.confidence > existing.confidence
                 THEN Append(ListRemove(filtered, existing), door)
                 ELSE filtered

(* The outer loop of filter_duplicate_doors (line 772) over doors[lo..hi],  *)
(* in order, starting from the list filtered.  The range is walked by      *)
(* halves, and the list kept from the lower half (never longer than the    *)
(* doors seen) is computed before the upper half is entered.               *)
RECURSIVE DedupFold(_, _, _, _)
DedupFold(filtered, doors, lo, hi) ==
    IF lo > hi THEN filtered
    ELSE IF lo = hi THEN DedupOne(filtered, doors[lo])
    ELSE LET mid == (lo + hi) \div 2
             lower == DedupFold(filtered, doors, lo, mid)
         IN  IF Len(lower) <= mid THEN DedupFold(lower, doors, mid + 1, hi) ELSE lower

(* filter_duplicate_doors (lines 766-792); filter_duplicate_windows and    *)
(* filter_duplicate_arches (lines 794-800) call it.                        *)
filter_duplicate_doors(doors) ==
    IF Len(doors) <= 1 THEN doors ELSE DedupFold(<<>>, doors, 1, Len(doors))

filter_duplicate_windows(windows) == filter_duplicate_doors(windows)

filter_duplicate_arches(arches) == filter_duplicate_doors(arches)

(* Openings the deduplicator is exercised on: the three door kinds with    *)
(* the confidences their detectors give them, on a line of positions       *)
(* DedupStep px apart.                                                     *)
MaxOpenings == 3

MaxDedupPos == 3

DedupStep == 20

DedupKinds ==
    { [type |-> "opening", confidence |-> 210],
      [type |-> "swing",   confidence |-> 240],
      [type |-> "symbol",  confidence |-> 180] }

DedupOpenings ==
    { [type |-> k.type, position |-> <<4 * DedupStep * i, 0>>,
       confidence |-> k.confidence] : k \in DedupKinds, i \in 0..MaxDedupPos }

SeqsUpTo(S, n) == UNION { [1..k -> S] : k \in 0..n }

DedupIdle == openings = <<>> /\ deduped = <<>> /\ deduped_again = <<>>

DedupInit ==
    /\ pc = "dedup_in"
    /\ openings \in SeqsUpTo(DedupOpenings, MaxOpenings)
    /\ deduped = <<>>
    /\ deduped_again = <<>>

Dedup ==
    /\ pc = "dedup_in"
    /\ deduped' = filter_duplicate_doors(openings)
    /\ pc' = "dedup_out"
    /\ UNCHANGED <<openings, deduped_again, angleVars, groupVars, scoreVars, pipeVars>>

DedupAgain ==
    /\ pc = "dedup_out"
    /\ deduped_again' = filter_duplicate_doors(deduped)
    /\ pc' = "dedup_twice"
    /\ UNCHANGED <<openings, deduped, angleVars, groupVars, scoreVars, pipeVars>>

---------------------------------------------------------------------------
(* Numeric library calls of the candidate loop (lines 68-69).              *)

(* np.sqrt in whole pixels (exact on the segments of HoughLines, whose     *)
(* squared lengths are perfect squares): the root is looked up first among *)
(* the multiples of 64 and then within the 64 values above the one found.  *)
Sqrt(n) ==
    LET coarse == CHOOSE c \in 0..31 : (64 * c) * (64 * c) <= n /\ n < (64 * c + 64) * (64 * c + 64)
    IN  CHOOSE r \in (64 * coarse)..(64 * coarse + 63) : r * r <= n /\ n < (r + 1) * (r + 1)

(* 10000 * tan((d - 0.5) degrees), d = 1..90. *)
TanHalfDeg ==
    << 87, 262, 437, 612, 787, 963, 1139, 1317, 1495, 1673, 1853, 2035, 2217, 2401,
       2586, 2773, 2962, 3153, 3346, 3541, 3739, 3939, 4142, 4348, 4557, 4770, 4986,
       5206, 5430, 5658, 5890, 6128, 6371, 6619, 6873, 7133, 7400, 7673, 7954, 8243,
       8541, 8847, 9163, 9490, 9827, 10176, 10538, 10913, 11303, 11708, 12131, 12572,
       13032, 13514, 14019, 14550, 15108, 15697, 16319, 16977, 17675, 18418, 19210,
       20057, 20965, 21943, 22998, 24142, 25386, 26746, 28239, 29887, 31716, 33759,
       36059, 38667, 41653, 45107, 49152, 53955, 59758, 66912, 75958, 87769, 103854,
       127062, 163499, 229038, 381885, 1145887 >>

(* np.arctan2(dy, dx) * 180 / np.pi, to the nearest whole degree. *)
Arctan2Deg(dy, dx) ==
    LET a == Cardinality({d \in 1..90 : TanHalfDeg[d] * Abs(dx) <= 10000 * Abs(dy)})
    IN  IF dx = 0 /\ dy = 0 THEN 0
        ELSE IF dx >= 0 THEN (IF dy >= 0 THEN a ELSE -a)
        ELSE (IF dy >= 0 THEN 180 - a ELSE a - 180)

(* int(): truncation towards zero of the quotient n / d, d > 0. *)
TruncDiv(n, d) == IF n >= 0 THEN n \div d ELSE -((-n) \div d)

---------------------------------------------------------------------------
(* The grayscale image.  A buffer of width x height pixels whose columns   *)
(* left of `split` are dark (0) and the others bright (255); `text` is     *)
(* the band of columns [text[1], text[2]) around which the Canny edge     *)
(* density of a 100x100 region exceeds 15% (lines 1211-1218).              *)

Intensity(img, x, y) == IF x >= img.split THEN 255 ELSE 0

InImage(img, x, y) == 0 <= x /\ x < img.width /\ 0 <= y /\ y < img.height

(* The sampling loop of estimate_thickness (lines 843-859): the first     *)
(* offset in 3..19 whose perpendicular sample is in the image and brighter *)
(* than 200 gives thickness 2 * offset, else 6.0.                          *)
SampledThickness(x1, y1, x2, y2, img) ==
    LET length == Sqrt((x2 - x1) * (x2 - x1) + (y2 - y1) * (y2 - y1))
        mid_x  == (x1 + x2) \div 2
        mid_y  == (y1 + y2) \div 2
        sample_x(offset) == TruncDiv(mid_x * length - offset * (y2 - y1), length)
        sample_y(offset) == TruncDiv(mid_y * length + offset * (x2 - x1), length)
        hits == {o \in 3..19 :
                    /\ InImage(img, sample_x(o), sample_y(o))
                    /\ Intensity(img, sample_x(o), sample_y(o)) > 200}
    IN  IF hits = {} THEN 6
        ELSE 2 * (CHOOSE o \in hits : \A o2 \in hits : o <= o2)

estimate_thickness_unclamped(x1, y1, x2, y2, img) ==
    Q(SampledThickness(x1, y1, x2, y2, img))

(* estimate_thickness (lines 823-861), returned as Q(thickness). *)
estimate_thickness(x1, y1, x2, y2, img) ==
    IF Sqrt((x2 - x1) * (x2 - x1) + (y2 - y1) * (y2 - y1)) = 0 THEN Q(6)
    ELSE Min(Max(Q(SampledThickness(x1, y1, x2, y2, img)), Q(3)), Q(25))

(* The members of s that satisfy the test, in order; keep[i] is the test   *)
(* on s[i].                                                                *)
SelectBy(s, keep) ==
    LET kept == {i \in 1..Len(s) : keep[i]}
        place == [i \in 1..Len(s) |-> Cardinality({j \in kept : j <= i})]
    IN  [r \in 1..Cardinality(kept) |-> s[CHOOSE i \in kept : place[i] = r]]

(* list.extend over parts[lo..hi], in order. *)
RECURSIVE Flatten(_, _, _)
Flatten(parts, lo, hi) ==
    IF lo > hi THEN <<>>
    ELSE IF lo = hi THEN parts[lo]
    ELSE Flatten(parts, lo, (lo + hi) \div 2) \o Flatten(parts, (lo + hi) \div 2 + 1, hi)

---------------------------------------------------------------------------
(* Candidate walls (lines 64-89).  A raw line is <<x1, y1, x2, y2>>.       *)

(* line 75: a band matches and length > 100, compared on the squares. *)
IsCandidate(line) ==
    LET length_squared == (line[3] - line[1]) * (line[3] - line[1])
                          + (line[4] - line[2]) * (line[4] - line[2])
        c == classify_angle_fuzzy(Arctan2Deg(line[4] - line[2], line[3] - line[1]))
    IN  (c.is_horizontal \/ c.is_vertical \/ c.is_diagonal) /\ length_squared > 100 * 100

MakeCandidate(line, img) ==
    LET x1 == line[1]
        y1 == line[2]
        x2 == line[3]
        y2 == line[4]
        length == Sqrt((x2 - x1) * (x2 - x1) + (y2 - y1) * (y2 - y1))
        a == Arctan2Deg(y2 - y1, x2 - x1)
        c == classify_angle_fuzzy(a)
    IN  [start |-> <<x1, y1>>, end |-> <<x2, y2>>, length |-> length, angle |-> a,
         type |-> IF c.is_horizontal THEN "horizontal"
                  ELSE IF c.is_vertical THEN "vertical" ELSE "diagonal",
         confidence |-> c.confidence,
         is_sketchy |-> (c.confidence < 240),
         thickness |-> estimate_thickness(x1, y1, x2, y2, img),
         source |-> "fuzzy_canny"]

(* lines 64-89: the loop over the lines, appending the accepted ones. *)
CandidateWalls(found_lines, img) ==
    SelectBy([k \in 1..Len(found_lines) |-> MakeCandidate(found_lines[k], img)],
             [k \in 1..Len(found_lines) |-> IsCandidate(found_lines[k])])

---------------------------------------------------------------------------
(* Grouping and consolidation (lines 888-1003).                            *)

(* line_to_line_distance (lines 950-958), wall_distance (lines 1184-1192): *)
(* the distance of the two midpoints, as Q(distance).                      *)
line_to_line_distance(line1, line2) ==
    LET sx1 == line1.start[1] + line1.end[1]
        sy1 == line1.start[2] + line1.end[2]
        sx2 == line2.start[1] + line2.end[1]
        sy2 == line2.start[2] + line2.end[2]
    IN  (sx2 - sx1) * (sx2 - sx1) + (sy2 - sy1) * (sy2 - sy1)

wall_distance(wall1, wall2) == line_to_line_distance(wall1, wall2)

(* are_parallel_and_close (lines 922-948). *)
are_parallel_and_close(line1, line2) ==
    LET diff == Abs(line1.angle - line2.angle)
        angle_diff == IF diff > 180 THEN 360 - diff ELSE diff
        distance == line_to_line_distance(line1, line2)
        max_thickness == IF line1.length + line2.length > 2 * 500 THEN 50
                         ELSE IF line1.length + line2.length > 2 * 200 THEN 30
                         ELSE 15
    IN  IF angle_diff > 15 THEN FALSE
        ELSE Q(1) < distance /\ distance < Q(max_thickness)

(* group_parallel_lines (lines 888-920).  A group is the list of the       *)
(* positions, in `lines`, of its members (the objects appended to it);     *)
(* g = [group |-> that list, used |-> the set `used`].                     *)

(* lines 906-913: the unused candidates close to the member group[k] are  *)
(* appended in the order of `lines`.                                       *)
ScanCandidates(lines, g, k) ==
    LET added == SelectBy([j \in 1..Len(lines) |-> j],
                          [j \in 1..Len(lines) |->
                              j \notin g.used
                                  /\ are_parallel_and_close(lines[g.group[k]], lines[j])])
    IN  [group |-> g.group \o added, used |-> g.used \cup {added[a] : a \in 1..Len(added)}]

(* line 905: for existing_line in group, over the list as it grows. *)
RECURSIVE SweepGroup(_, _, _)
SweepGroup(lines, g, k) ==
    IF k > Len(g.group) THEN g
    ELSE SweepGroup(lines, ScanCandidates(lines, g, k), k + 1)

GrowGroup_first_only(lines, g) == ScanCandidates(lines, g, 1)

(* lines 902-913: while added_to_group. *)
RECURSIVE GrowGroup(_, _)
GrowGroup(lines, g) ==
    LET g2 == SweepGroup(lines, g, 1)
    IN  IF Len(g2.group) = Len(g.group) THEN g2 ELSE GrowGroup(lines, g2)

(* lines 893-917: for i, line1 in enumerate(lines), over i in lo..hi;      *)
(* st = [used |-> the set `used`, groups |-> the list `groups`].  The      *)
(* range is walked by halves, and the groups of the lower half (at most    *)
(* one per line seen) are computed before the upper half is entered.       *)
RECURSIVE GroupFrom(_, _, _, _)
GroupFrom(lines, lo, hi, st) ==
    IF lo > hi THEN st
    ELSE IF lo = hi
    THEN IF lo \in st.used THEN st
         ELSE LET g == GrowGroup(lines, [group |-> <<lo>>, used |-> st.used \cup {lo}])
              IN  [used |-> g.used, groups |-> Append(st.groups, g.group)]
    ELSE LET mid == (lo + hi) \div 2
             lower == GroupFrom(lines, lo, mid, st)
         IN  IF Len(lower.groups) <= mid THEN GroupFrom(lines, mid + 1, hi, lower) ELSE lower

group_parallel_lines(lines) ==
    GroupFrom(lines, 1, Len(lines), [used |-> {}, groups |-> <<>>]).groups

(* The members of a group, as segments. *)
GroupLines(lines, group) == [k \in 1..Len(group) |-> lines[group[k]]]

LongestOf_first(line_group) == line_group[1]

(* max(line_group, key=length): the first member of maximal length. *)
LongestOf(line_group) ==
    line_group[CHOOSE i \in 1..Len(line_group) :
                  /\ \A j \in 1..Len(line_group) : line_group[j].length <= line_group[i].length
                  /\ \A j \in 1..(i - 1) : line_group[j].length < line_group[i].length]

(* lines 993-997: the distances of all pairs i < j of the group. *)
PairDistances(line_group) ==
    {line_to_line_distance(line_group[p[1]], line_group[p[2]]) :
        p \in {q \in (1..Len(line_group)) \X (1..Len(line_group)) : q[1] < q[2]}}

calculate_group_thickness_unclamped(line_group) ==
    IF Len(line_group) < 2 THEN Q(6)
    ELSE LET distances == PairDistances(line_group)
         IN  CHOOSE d \in distances : \A e \in distances : e <= d

(* calculate_group_thickness (lines 987-1003), as Q(thickness). *)
calculate_group_thickness(line_group) ==
    IF Len(line_group) < 2 THEN Q(6)
    ELSE LET distances == PairDistances(line_group)
             thickness == CHOOSE d \in distances : \A e \in distances : e <= d
         IN  Min(Max(thickness, Q(4)), Q(25))

(* merge_collinear_segments (lines 960-985). *)
merge_collinear_segments(line_group) ==
    IF line_group = <<>> THEN <<>>
    ELSE IF Len(line_group) > 1
    THEN LET main_line == LongestOf(line_group)
         IN  << [start |-> main_line.start, end |-> main_line.end,
                 length |-> main_line.length, angle |-> main_line.angle,
                 type |-> main_line.type,
                 confidence |-> Min(ConfOne, (main_line.confidence * 12) \div 10),
                 is_sketchy |-> FALSE,
                 thickness |-> calculate_group_thickness(line_group),
                 source |-> "consolidated"] >>
    ELSE line_group

(* lines 874-877: the merged walls of all groups, in group order; a group  *)
(* is never empty and merges into exactly one wall.                        *)
MergeGroups(lines, groups) ==
    [g \in 1..Len(groups) |-> merge_collinear_segments(GroupLines(lines, groups[g]))[1]]

---------------------------------------------------------------------------
(* Structural scoring (lines 1038-1116).                                   *)

(* is_perimeter_wall (lines 1077-1090). *)
is_perimeter_wall(wall) ==
    LET edge_threshold == 50
        near_edge == \/ wall.start[1] < edge_threshold
                     \/ wall.end[1] < edge_threshold
                     \/ wall.start[2] < edge_threshold
                     \/ wall.end[2] < edge_threshold
    IN  near_edge /\ wall.length > 200

LengthScore_long_only(length) == IF length > 300 THEN 1200 ELSE 0

(* lines 1043-1051: the length contribution. *)
LengthScore(length) ==
    IF length > 300 THEN 1200
    ELSE IF length > 150 THEN 900
    ELSE IF length > 100 THEN 600
    ELSE IF length > 50 THEN 300
    ELSE 0

ThicknessScore_swapped(thickness) ==
    IF thickness > Q(15) THEN 300
    ELSE IF thickness > Q(8) THEN 450
    ELSE IF thickness > Q(4) THEN 600
    ELSE 0

(* lines 1055-1061: the thickness contribution. *)
ThicknessScore(thickness) ==
    IF thickness > Q(15) THEN 600
    ELSE IF thickness > Q(8) THEN 450
    ELSE IF thickness > Q(4) THEN 300
    ELSE 0

calculate_structural_importance_uncapped(wall) ==
    LengthScore(wall.length) + ThicknessScore(wall.thickness)
        + (IF wall.source = "consolidated" THEN 750 ELSE 0)
        + (IF is_perimeter_wall(wall) THEN 600 ELSE 0)
        + wall.confidence

(* calculate_structural_importance (lines 1038-1075). *)
calculate_structural_importance(wall) ==
    LET score == LengthScore(wall.length) + ThicknessScore(wall.thickness)
                    + (IF wall.source = "consolidated" THEN 750 ELSE 0)
                    + (IF is_perimeter_wall(wall) THEN 600 ELSE 0)
                    + wall.confidence
    IN  Min(score, ScoreOne)

---------------------------------------------------------------------------
(* Structural focus and noise filtering (lines 1009-1221).                 *)

(* list.sort(key=..., reverse=True): stable, by descending key.  keys[i]   *)
(* is the key of s[i].                                                     *)
SortDesc(s, keys) ==
    LET rank == [i \in 1..Len(s) |->
                    1 + Cardinality({j \in 1..Len(s) :
                            keys[j] > keys[i] \/ (keys[j] = keys[i] /\ j < i)})]
    IN  [r \in 1..Len(s) |-> s[CHOOSE i \in 1..Len(s) : rank[i] = r]]

(* sum(w['length'] for w in walls) over walls[lo..hi] (line 1098). *)
RECURSIVE SumLengths(_, _, _)
SumLengths(walls, lo, hi) ==
    IF lo > hi THEN 0
    ELSE IF lo = hi THEN walls[lo].length
    ELSE SumLengths(walls, lo, (lo + hi) \div 2) + SumLengths(walls, (lo + hi) \div 2 + 1, hi)

calculate_realistic_wall_count_unbounded(walls) ==
    Cardinality({i \in 1..Len(walls) : walls[i].structural_score > 2100})
        + Cardinality({i \in 1..Len(walls) :
              1200 < walls[i].structural_score /\ walls[i].structural_score <= 2100}) \div 2

(* calculate_realistic_wall_count (lines 1092-1116). *)
calculate_realistic_wall_count(walls) ==
    IF walls = <<>> THEN 0
    ELSE LET base_count == IF SumLengths(walls, 1, Len(walls)) > 400 * Len(walls) THEN 35
                           ELSE IF SumLengths(walls, 1, Len(walls)) > 200 * Len(walls) THEN 30
                           ELSE 25
             high_importance ==
                 Cardinality({i \in 1..Len(walls) : walls[i].structural_score > 2100})
             medium_importance ==
                 Cardinality({i \in 1..Len(walls) :
                     1200 < walls[i].structural_score /\ walls[i].structural_score <= 2100})
             realistic_count == Min(high_importance + (medium_importance \div 2), base_count)
         IN  Max(realistic_count, 15)

(* line 1021: wall['structural_score'] = importance_score. *)
Scored(wall) ==
    [f \in DOMAIN wall \cup {"structural_score"} |->
        IF f = "structural_score" THEN calculate_structural_importance(wall) ELSE wall[f]]

(* lines 1019-1028: the scored walls above the cutoff, by descending score. *)
StructuralWalls(walls) ==
    LET scored == [i \in 1..Len(walls) |-> Scored(walls[i])]
        structural_walls ==
            SelectBy(scored, [i \in 1..Len(walls) |-> scored[i].structural_score > 900])
    IN  SortDesc(structural_walls,
                 [i \in 1..Len(structural_walls) |-> structural_walls[i].structural_score])

apply_structural_focus_uncapped(walls) ==
    IF walls = <<>> THEN <<>> ELSE StructuralWalls(walls)

(* apply_structural_focus (lines 1009-1036). *)
apply_structural_focus(walls) ==
    IF walls = <<>> THEN <<>>
    ELSE LET structural_walls == StructuralWalls(walls)
             cap == calculate_realistic_wall_count(structural_walls)
         IN  IF Len(structural_walls) > cap
             THEN SubSeq(structural_walls, 1, cap)
             ELSE structural_walls

(* calculate_wall_thickness_from_groups (lines 1005-1007). *)
calculate_wall_thickness_from_groups(walls) == walls

(* consolidate_wall_segments (lines 863-886). *)
consolidate_wall_segments(line_segments) ==
    IF line_segments = <<>> THEN <<>>
    ELSE LET grouped == group_parallel_lines(line_segments)
             merged == MergeGroups(line_segments, grouped)
             thickness_walls == calculate_wall_thickness_from_groups(merged)
         IN  apply_structural_focus(thickness_walls)

(* lines 1153-1170: the clusters, as lists of positions in walls.  A wall  *)
(* joins the cluster of the first earlier unused wall it is within 10      *)
(* degrees and 30 px of.                                                   *)
ClusterScan(walls, i, c) ==
    LET added == SelectBy([j \in 1..Len(walls) |-> j],
                          [j \in 1..Len(walls) |->
                              /\ j > i
                              /\ j \notin c.used
                              /\ Abs(walls[i].angle - walls[j].angle) < 10
                              /\ wall_distance(walls[i], walls[j]) < Q(30)])
    IN  [group |-> c.group \o added, used |-> c.used \cup {added[a] : a \in 1..Len(added)}]

(* lines 1153-1170: for i, wall1 in enumerate(walls), over i in lo..hi, by *)
(* halves as in GroupFrom; st = [used |-> ..., clusters |-> ...].          *)
RECURSIVE ClustersFrom(_, _, _, _)
ClustersFrom(walls, lo, hi, st) ==
    IF lo > hi THEN st
    ELSE IF lo = hi
    THEN IF lo \in st.used THEN st
         ELSE LET c == ClusterScan(walls, lo, [group |-> <<lo>>, used |-> st.used \cup {lo}])
              IN  [used |-> c.used, clusters |-> Append(st.clusters, c.group)]
    ELSE LET mid == (lo + hi) \div 2
             lower == ClustersFrom(walls, lo, mid, st)
         IN  IF Len(lower.clusters) <= mid THEN ClustersFrom(walls, mid + 1, hi, lower)
             ELSE lower

(* lines 1173-1180: small clusters whole, of large ones the 2 longest. *)
KeepFromClusters(walls, clusters) ==
    LET kept(c) ==
            LET cluster == GroupLines(walls, clusters[c])
                sorted == SortDesc(cluster, [k \in 1..Len(cluster) |-> cluster[k].length])
            IN  IF Len(cluster) <= 4 THEN cluster ELSE SubSeq(sorted, 1, 2)
    IN  Flatten([c \in 1..Len(clusters) |-> kept(c)], 1, Len(clusters))

(* remove_text_clusters (lines 1144-1182). *)
remove_text_clusters(walls) ==
    IF Len(walls) < 3 THEN walls
    ELSE KeepFromClusters(walls, ClustersFrom(walls, 1, Len(walls),
                                              [used |-> {}, clusters |-> <<>>]).clusters)

(* is_in_text_area (lines 1194-1221): the region of up to 100x100 px       *)
(* around the wall's midpoint has an edge density above 15%.               *)
is_in_text_area(wall, img) ==
    LET mid_x == (wall.start[1] + wall.end[1]) \div 2
        mid_y == (wall.start[2] + wall.end[2]) \div 2
        x1 == Max(0, mid_x - 50)
        y1 == Max(0, mid_y - 50)
        x2 == Min(img.width, mid_x + 50)
        y2 == Min(img.height, mid_y + 50)
    IN  IF x2 <= x1 \/ y2 <= y1 THEN FALSE
        ELSE img.text[1] <= mid_x /\ mid_x < img.text[2]

apply_intelligent_filtering_unfiltered(candidate, img) == candidate

(* apply_intelligent_filtering (lines 1118-1142). *)
apply_intelligent_filtering(candidate, img) ==
    LET clustered_walls == remove_text_clusters(candidate)
        quality_walls ==
            SelectBy(clustered_walls,
                [i \in 1..Len(clustered_walls) |->
                    \/ (clustered_walls[i].confidence > 240 /\ clustered_walls[i].length > 120)
                    \/ clustered_walls[i].length > 200])
        filtered_walls ==
            SelectBy(quality_walls,
                [i \in 1..Len(quality_walls) |-> ~is_in_text_area(quality_walls[i], img)])
    IN  SortDesc(filtered_walls,
                 [i \in 1..Len(filtered_walls) |->
                     filtered_walls[i].confidence * filtered_walls[i].length])

---------------------------------------------------------------------------
(* Opening detection (lines 130-800).  What the OpenCV calls find in the   *)
(* image is carried by the image record:                                   *)
(*   swings          the doors find_door_swings builds from HoughCircles   *)
(*                   and from the arc-shaped contours (lines 236-305)      *)
(*   light_contours  bounding rectangle and area of each contour of the    *)
(*                   Otsu-thresholded image (lines 350-361)                *)
(*   dark_contours   the same for the inverted threshold (lines 384-391)   *)
(*   pane            the band of columns [pane[1], pane[2]) where the      *)
(*                   profile across a wall shows a window pattern          *)
(*                   (has_window_break_pattern, has_window_pattern_at_point)*)

are_walls_parallel_always(wall1, wall2) == TRUE

(* are_walls_parallel (lines 597-600). *)
are_walls_parallel(wall1, wall2) ==
    LET angle_diff == Abs(wall1.angle - wall2.angle)
    IN  angle_diff < 15 \/ angle_diff > 165

(* get_opening_center (lines 619-627), in quarter pixels. *)
get_opening_center(wall1, wall2) ==
    << wall1.start[1] + wall1.end[1] + wall2.start[1] + wall2.end[1],
       wall1.start[2] + wall1.end[2] + wall2.start[2] + wall2.end[2] >>

(* looks_like_door_opening (lines 602-617): the mean intensity of the      *)
(* region of up to 20x20 px around the centre is above 200.                *)
looks_like_door_opening(wall1, wall2, img) ==
    LET center == get_opening_center(wall1, wall2)
        x == TruncDiv(center[1], 4)
        y == TruncDiv(center[2], 4)
        cols == Max(0, x - 10) .. (Min(img.width, x + 10) - 1)
        rows == Max(0, y - 10) .. (Min(img.height, y + 10) - 1)
        total == Cardinality(rows) * Cardinality({c \in cols : Intensity(img, c, y) > 200}) * 255
    IN  IF InImage(img, x, y) /\ cols # {} /\ rows # {}
        THEN total > 200 * Cardinality(rows) * Cardinality(cols)
        ELSE FALSE

(* The pairs i < j of positions in walls, in the order of the nested loops *)
(* of find_door_openings and find_wide_openings.                           *)
WallPairs(walls) ==
    LET n == Len(walls)
        before(i) == (i - 1) * n - (i * (i - 1)) \div 2
    IN  [r \in 1..((n * (n - 1)) \div 2) |->
            LET i == CHOOSE k \in 1..(n - 1) : before(k) < r /\ r <= before(k + 1)
            IN  <<i, i + (r - before(i))>>]

(* find_door_openings (lines 208-234). *)
find_door_openings(walls, img) ==
    LET pairs == WallPairs(walls)
        is_door(q) ==
            /\ are_walls_parallel(walls[q[1]], walls[q[2]])
            /\ Q(50) < wall_distance(walls[q[1]], walls[q[2]])
            /\ wall_distance(walls[q[1]], walls[q[2]]) < Q(100)
            /\ looks_like_door_opening(walls[q[1]], walls[q[2]], img)
        doors == [r \in 1..Len(pairs) |->
                    [type |-> "opening",
                     position |-> get_opening_center(walls[pairs[r][1]], walls[pairs[r][2]]),
                     width |-> wall_distance(walls[pairs[r][1]], walls[pairs[r][2]]),
                     wall1 |-> walls[pairs[r][1]], wall2 |-> walls[pairs[r][2]],
                     confidence |-> 210, swing |-> "None"]]
    IN  SelectBy(doors, [r \in 1..Len(pairs) |-> is_door(pairs[r])])

(* find_curved_arches (lines 735-740). *)
find_curved_arches(img) == <<>>

(* find_wide_openings (lines 742-764). *)
find_wide_openings(walls, img) ==
    LET pairs == WallPairs(walls)
        is_wide(q) ==
            /\ are_walls_parallel(walls[q[1]], walls[q[2]])
            /\ Q(150) < wall_distance(walls[q[1]], walls[q[2]])
            /\ wall_distance(walls[q[1]], walls[q[2]]) < Q(250)
        found == [r \in 1..Len(pairs) |->
                    [type |-> "wide_opening",
                     position |-> get_opening_center(walls[pairs[r][1]], walls[pairs[r][2]]),
                     width |-> wall_distance(walls[pairs[r][1]], walls[pairs[r][2]]),
                     wall1 |-> walls[pairs[r][1]], wall2 |-> walls[pairs[r][2]],
                     confidence |-> 180]]
    IN  SelectBy(found, [r \in 1..Len(pairs) |-> is_wide(pairs[r])])

(* point_to_line_distance (lines 712-725) < bound, for a whole bound: the  *)
(* distance |A px + B py + C| / sqrt(A^2 + B^2) to the infinite line       *)
(* through the wall, infinite for a wall of no length.  The comparison is  *)
(* made on |A px + B py + C| and bound * sqrt(A^2 + B^2), whose whole part *)
(* is looked up above bound * Sqrt(A^2 + B^2).                             *)
point_to_line_distance_below(px, py, wall, bound) ==
    LET A == wall.end[2] - wall.start[2]
        B == wall.start[1] - wall.end[1]
        C == wall.end[1] * wall.start[2] - wall.start[1] * wall.end[2]
        norm2 == A * A + B * B
        root == Sqrt(norm2)
        reach == CHOOSE m \in (bound * root)..(bound * root + bound) :
                     /\ m * m <= bound * bound * norm2
                     /\ bound * bound * norm2 < (m + 1) * (m + 1)
    IN  IF A = 0 /\ B = 0 THEN FALSE
        ELSE IF root * root = norm2 THEN Abs(A * px + B * py + C) < bound * root
        ELSE Abs(A * px + B * py + C) <= reach

PointNearLine_within_20(px, py, wall, tolerance) ==
    point_to_line_distance_below(px, py, wall, 20)

(* wall_dist < tolerance (lines 706-708). *)
PointNearLine(px, py, wall, tolerance) ==
    point_to_line_distance_below(px, py, wall, tolerance)

is_near_wall_anywhere(point, walls, tolerance) == TRUE

(* is_near_wall (lines 700-710), the definition in effect: the one at      *)
(* lines 676-686 is replaced by it when the class body is executed.        *)
is_near_wall(point, walls, tolerance) ==
    \E i \in 1..Len(walls) : PointNearLine(point[1], point[2], walls[i], tolerance)

(* find_door_symbols (lines 345-377); contours are [x, y, w, h, area]. *)
find_door_symbols(img, walls) ==
    LET cs == img.light_contours
        is_symbol(c) ==
            /\ 200 < c.area /\ c.area < 2000
            /\ c.w > 0 /\ 2 * c.h > 3 * c.w /\ c.h < 3 * c.w
            /\ is_near_wall(<<c.x + c.w \div 2, c.y + c.h \div 2>>, walls, 15)
    IN  SelectBy([k \in 1..Len(cs) |->
                    [type |-> "symbol",
                     position |-> <<4 * (cs[k].x + cs[k].w \div 2),
                                    4 * (cs[k].y + cs[k].h \div 2)>>,
                     width |-> cs[k].w, height |-> cs[k].h, confidence |-> 180]],
                 [k \in 1..Len(cs) |-> is_symbol(cs[k])])

(* lines 152-154 and 199-201: the cap most confident openings. *)
CapOpenings_one_more(found, cap) ==
    IF Len(found) > cap
    THEN SubSeq(SortDesc(found, [k \in 1..Len(found) |-> found[k].confidence]), 1, cap + 1)
    ELSE found

CapOpenings(found, cap) ==
    IF Len(found) > cap
    THEN SubSeq(SortDesc(found, [k \in 1..Len(found) |-> found[k].confidence]), 1, cap)
    ELSE found

(* detect_doors (lines 130-159).  swings_raise, symbols_raise: the call of *)
(* find_door_swings, find_door_symbols raises; doors then is what the      *)
(* earlier methods appended.                                               *)
detect_doors(img, walls, swings_raise, symbols_raise) ==
    LET door_openings == find_door_openings(walls, img)
    IN  IF swings_raise THEN door_openings
        ELSE IF symbols_raise THEN door_openings \o img.swings
        ELSE CapOpenings(
                 filter_duplicate_doors(
                     door_openings \o img.swings \o find_door_symbols(img, walls)), 20)

(* has_window_break_pattern (lines 448-496) and                           *)
(* has_window_pattern_at_point (lines 568-594) at the sample <<px, py>>.   *)
HasWindowPattern(img, px, py) == img.pane[1] <= px /\ px < img.pane[2]

(* The sample i of num_samples along the wall (lines 424-426, 552-554). *)
SamplePoint(wall, i, num_samples) ==
    << TruncDiv(wall.start[1] * num_samples + i * (wall.end[1] - wall.start[1]), num_samples),
       TruncDiv(wall.start[2] * num_samples + i * (wall.end[2] - wall.start[2]), num_samples) >>

(* lines 423-444: the samples lo..hi of find_windows_along_wall, by halves; *)
(* the windows of the lower half (at most one per sample) are computed     *)
(* before the upper half is entered.                                       *)
RECURSIVE BreakScan(_, _, _, _, _, _)
BreakScan(wall, img, lo, hi, num_samples, windows) ==
    IF lo > hi THEN windows
    ELSE IF lo = hi
    THEN LET pt == SamplePoint(wall, lo, num_samples)
             too_close == \E k \in 1..Len(windows) :
                             /\ Abs(windows[k].position[1] - 4 * pt[1]) < 4 * 30
                             /\ Abs(windows[k].position[2] - 4 * pt[2]) < 4 * 30
         IN  IF HasWindowPattern(img, pt[1], pt[2]) /\ ~too_close
             THEN Append(windows,
                         [type |-> "wall_break", position |-> <<4 * pt[1], 4 * pt[2]>>,
                          width |-> 30, height |-> 15, confidence |-> 180, wall |-> wall])
             ELSE windows
    ELSE LET mid == (lo + hi) \div 2
             lower == BreakScan(wall, img, lo, mid, num_samples, windows)
         IN  IF Len(lower) <= mid THEN BreakScan(wall, img, mid + 1, hi, num_samples, lower)
             ELSE lower

(* find_windows_along_wall (lines 410-446). *)
find_windows_along_wall(wall, img) ==
    IF wall.length < 50 THEN <<>>
    ELSE LET num_samples == Max(15, wall.length \div 15)
         IN  BreakScan(wall, img, 1, num_samples - 2, num_samples, <<>>)

(* detect_window_patterns_on_wall (lines 543-566). *)
detect_window_patterns_on_wall(wall, img) ==
    LET num_samples == Max(10, wall.length \div 20)
        pts == [k \in 1..num_samples |-> SamplePoint(wall, k - 1, num_samples)]
    IN  SelectBy([k \in 1..num_samples |->
                    [type |-> "parallel_lines", position |-> <<4 * pts[k][1], 4 * pts[k][2]>>,
                     width |-> 40, wall |-> wall, confidence |-> 180]],
                 [k \in 1..num_samples |-> HasWindowPattern(img, pts[k][1], pts[k][2])])

(* lines 404-406: find_windows_along_wall for every wall. *)
AlongWalls(walls, img) ==
    Flatten([k \in 1..Len(walls) |-> find_windows_along_wall(walls[k], img)], 1, Len(walls))

(* find_window_rectangles (lines 379-408). *)
find_window_rectangles(img, walls) ==
    LET cs == img.dark_contours
        is_window(c) ==
            /\ 50 < c.area /\ c.area < 1500
            /\ c.h > 0 /\ 2 * c.w > c.h /\ c.w < 5 * c.h
            /\ is_near_wall(<<c.x + c.w \div 2, c.y + c.h \div 2>>, walls, 20)
    IN  SelectBy([k \in 1..Len(cs) |->
                    [type |-> "dark_rectangle",
                     position |-> <<4 * (cs[k].x + cs[k].w \div 2),
                                    4 * (cs[k].y + cs[k].h \div 2)>>,
                     width |-> cs[k].w, height |-> cs[k].h, confidence |-> 240]],
                 [k \in 1..Len(cs) |-> is_window(cs[k])])
        \o AlongWalls(walls, img)

(* find_window_parallel_lines (lines 531-541). *)
find_window_parallel_lines(img, walls) ==
    Flatten([k \in 1..Len(walls) |-> detect_window_patterns_on_wall(walls[k], img)],
            1, Len(walls))

(* detect_windows (lines 161-180).  rectangles_raise: the call of          *)
(* find_window_rectangles raises.                                          *)
detect_windows(img, walls, rectangles_raise) ==
    IF rectangles_raise THEN <<>>
    ELSE filter_duplicate_windows(
             find_window_rectangles(img, walls) \o find_window_parallel_lines(img, walls))

(* detect_arches (lines 182-206).  openings_raise: the call of             *)
(* find_wide_openings raises; arches then is what find_curved_arches       *)
(* appended.                                                               *)
detect_arches(img, walls, openings_raise) ==
    IF openings_raise THEN find_curved_arches(img)
    ELSE CapOpenings(
             filter_duplicate_arches(find_curved_arches(img) \o find_wide_openings(walls, img)),
             15)

---------------------------------------------------------------------------
(* Inputs of the wall stages.                                              *)

ImgWidth == 1000

ImgHeight == 800

Page(split, text, pane, swings, light_contours, dark_contours) ==
    [readable |-> TRUE, width |-> ImgWidth, height |-> ImgHeight, split |-> split,
     text |-> text, pane |-> pane, swings |-> swings,
     light_contours |-> light_contours, dark_contours |-> dark_contours]

(* A white page: every sample is bright, no region is text-dense, OpenCV   *)
(* finds no circle, contour or window pattern.                             *)
WhitePage == Page(0, <<0, 0>>, <<0, 0>>, <<>>, <<>>, <<>>)

(* cv2.imread returned None. *)
Unreadable == [readable |-> FALSE]

(* Lines as HoughLinesP returns them, <<x1, y1, x2, y2>>, each of integer  *)
(* length: three long horizontal strokes 8 and 22 px apart, two short      *)
(* ones, a stroke drawn right to left (angle 180), two strokes of angles   *)
(* 174 and -174, and a vertical one.                                       *)
HoughLines ==
    { <<10, 100, 410, 100>>, <<5, 108, 415, 108>>, <<10, 130, 410, 130>>,
      <<150, 120, 270, 120>>, <<150, 140, 270, 140>>,
      <<410, 104, 10, 104>>,
      <<410, 100, 11, 140>>, <<410, 120, 11, 80>>,
      <<100, 10, 100, 410>> }

MaxLines == 3

GroupIdle == segments = <<>> /\ wall_groups = <<>> /\ rep_groups = <<>>

GroupInit ==
    /\ pc = "group_in"
    /\ \E l \in SeqsUpTo(HoughLines, MaxLines) : segments = CandidateWalls(l, WhitePage)
    /\ wall_groups = <<>>
    /\ rep_groups = <<>>

Group ==
    /\ pc = "group_in"
    /\ wall_groups' = group_parallel_lines(segments)
    /\ pc' = "group_out"
    /\ UNCHANGED <<segments, rep_groups, angleVars, dedupVars, scoreVars, pipeVars>>

(* group_parallel_lines on the walls merge_collinear_segments makes of the *)
(* wall_groups: one per group, with the geometry of its longest member.         *)
Regroup ==
    /\ pc = "group_out"
    /\ rep_groups' = group_parallel_lines(MergeGroups(segments, wall_groups))
    /\ pc' = "regrouped"
    /\ UNCHANGED <<segments, wall_groups, angleVars, dedupVars, scoreVars, pipeVars>>

---------------------------------------------------------------------------
(* Walls the scorer is exercised on: horizontal walls from <<x, ScoreRow>>  *)
(* to <<x + length, ScoreRow>>, near the left border, near the right       *)
(* border (the longest one from x = 640) or near neither.                  *)

ScoreRow == 100

ScoreLengths == {40, 80, 120, 180, 250, 350}

ScoreThicknesses == {Q(3), Q(4), Q(6), Q(10), Q(20), Q(25)}

ScoreWall(x, length, thickness, source, confidence) ==
    [start |-> <<x, ScoreRow>>, end |-> <<x + length, ScoreRow>>, length |-> length,
     angle |-> 0, type |-> "horizontal", confidence |-> confidence,
     is_sketchy |-> (confidence < 240), thickness |-> thickness, source |-> source]

ScoreWalls ==
    { ScoreWall(x, l, t, s, c) :
        x \in {20, 100, 640}, l \in ScoreLengths, t \in ScoreThicknesses,
        s \in {"fuzzy_canny", "consolidated"}, c \in {150, 240, ConfOne} }

(* The length buckets (over 50, 100, 150, 300 px) and thickness buckets    *)
(* (over 4, 8, 15 px) of section 4.6, numbered upwards.                    *)
LengthBucket(length) == Cardinality({t \in {50, 100, 150, 300} : length > t})

ThicknessBucket(thickness) == Cardinality({t \in {4, 8, 15} : thickness > Q(t)})

(* b is a with a higher length bucket, a higher thickness bucket, on the   *)
(* perimeter instead of off it, or consolidated instead of raw, and        *)
(* nothing else changed.                                                   *)
Raised(a, b) ==
    \/ /\ LengthBucket(b.length) > LengthBucket(a.length)
       /\ b = [a EXCEPT !.length = b.length, !.end = <<a.start[1] + b.length, ScoreRow>>]
    \/ /\ ThicknessBucket(b.thickness) > ThicknessBucket(a.thickness)
       /\ b = [a EXCEPT !.thickness = b.thickness]
    \/ /\ is_perimeter_wall(b) /\ ~is_perimeter_wall(a)
       /\ b = [a EXCEPT !.start = b.start, !.end = <<b.start[1] + a.length, ScoreRow>>]
    \/ /\ b.source = "consolidated" /\ a.source = "fuzzy_canny"
       /\ b = [a EXCEPT !.source = b.source]

ScoreIdle ==
    /\ wall_a = ScoreWall(0, 0, 0, "", 0)
    /\ wall_b = ScoreWall(0, 0, 0, "", 0)
    /\ score_a = 0
    /\ score_b = 0

ScoreInit ==
    /\ pc = "score_in"
    /\ wall_a \in ScoreWalls
    /\ wall_b \in {b \in ScoreWalls : Raised(wall_a, b)}
    /\ score_a = 0
    /\ score_b = 0

Score ==
    /\ pc = "score_in"
    /\ score_a' = calculate_structural_importance(wall_a)
    /\ score_b' = calculate_structural_importance(wall_b)
    /\ pc' = "score_out"
    /\ UNCHANGED <<wall_a, wall_b, angleVars, dedupVars, groupVars, pipeVars>>

---------------------------------------------------------------------------
(* detect_walls_fuzzy (lines 19-128).                                      *)

(* A swing found by find_door_swings (lines 259-265, 295-301). *)
Swing(type, x, y, radius, confidence) ==
    [type |-> type, position |-> <<4 * x, 4 * y>>, radius |-> radius,
     confidence |-> confidence, swing_direction |-> "right"]

Contour(x, y, w, h, area) == [x |-> x, y |-> y, w |-> w, h |-> h, area |-> area]

(* A drawn plan on white paper: a text band, a window band, a swing arc   *)
(* 20 px from the gap between the strokes at rows 130 and 190, door and   *)
(* window symbols on and off the strokes.                                  *)
PlanPage ==
    Page(0, <<600, 700>>, <<300, 340>>,
         << Swing("swing", 230, 160, 40, 240), Swing("swing_curve", 500, 500, 30, 210) >>,
         << Contour(200, 100, 20, 40, 800), Contour(200, 300, 20, 40, 800),
            Contour(60, 90, 20, 20, 400) >>,
         << Contour(120, 95, 30, 12, 360), Contour(120, 400, 30, 12, 360) >>)

(* A lone door swing arc on white paper: no stroke long enough for a line. *)
ArcPage == Page(0, <<0, 0>>, <<0, 0>>, << Swing("swing_curve", 500, 500, 30, 210) >>, <<>>, <<>>)

(* Pages dark left of a column: the perpendicular samples of a stroke turn *)
(* bright only some pixels away from it.                                   *)
SplitPages == { Page(sp, <<0, 0>>, <<0, 0>>, <<>>, <<>>, <<>>) : sp \in {104, 115, ImgWidth} }

Images == {Unreadable, WhitePage, PlanPage, ArcPage} \cup SplitPages

(* Strokes for the whole pipeline: those of HoughLines that lie 8 px apart, *)
(* strokes 3, 28 and 60 px from them, a short and a slanted stroke, and    *)
(* vertical strokes drawn both ways.                                       *)
PipeLines ==
    { <<10, 100, 410, 100>>, <<5, 108, 415, 108>>, <<10, 103, 410, 103>>,
      <<10, 128, 410, 128>>, <<10, 190, 410, 190>>, <<10, 130, 410, 130>>,
      <<150, 120, 270, 120>>, <<410, 100, 11, 140>>, <<500, 300, 740, 480>>,
      <<100, 10, 100, 410>>, <<100, 410, 100, 10>>, <<60, 60, 120, 60>> }

GridX == 100

GridY == 100

GridStep == 60

GridLength == 400

(* rows x cols parallel strokes whose midpoints form a grid of GridStep px. *)
GridLines(rows, cols) ==
    [k \in 1..(rows * cols) |->
        << GridX + GridStep * ((k - 1) % cols), GridY + GridStep * ((k - 1) \div cols),
           GridX + GridStep * ((k - 1) % cols) + GridLength,
           GridY + GridStep * ((k - 1) \div cols) >>]

MaxHough == 2

MaxGridRows == 4

MaxGridCols == 4

(* lines is None, or the list of lines found. *)
HoughResults ==
    {[found |-> FALSE, lines |-> <<>>]}
        \cup {[found |-> TRUE, lines |-> l] : l \in SeqsUpTo(PipeLines, MaxHough) \ {<<>>}}
        \cup {[found |-> TRUE, lines |-> GridLines(r, c)] :
                 r \in 1..MaxGridRows, c \in 1..MaxGridCols}

Pending == [pending |-> TRUE]

PipeIdle ==
    /\ image = Unreadable
    /\ hough = [found |-> FALSE, lines |-> <<>>]
    /\ candidate_walls = <<>>
    /\ consolidated_walls = <<>>
    /\ max_walls = 0
    /\ found_walls = <<>>
    /\ found_doors = <<>>
    /\ found_windows = <<>>
    /\ found_arches = <<>>
    /\ raised = {}
    /\ result = Pending

PipeInit ==
    /\ pc = "start"
    /\ image \in Images
    /\ hough \in HoughResults
    /\ candidate_walls = <<>>
    /\ consolidated_walls = <<>>
    /\ max_walls = 0
    /\ found_walls = <<>>
    /\ found_doors = <<>>
    /\ found_windows = <<>>
    /\ found_arches = <<>>
    /\ raised = {}
    /\ result = Pending

others == <<angleVars, dedupVars, groupVars, scoreVars>>

(* lines 23-25 and 123-128: imread returns None, the ValueError is caught. *)
ImreadFails ==
    /\ pc = "start"
    /\ ~image.readable
    /\ result' = [success |-> FALSE, error |-> "Could not read image", walls |-> <<>>]
    /\ pc' = "done"
    /\ UNCHANGED <<image, hough, candidate_walls, consolidated_walls, max_walls, found_walls,
                   found_doors, found_windows, found_arches, raised, others>>

(* lines 28-89: edges, lines, and the candidate found_walls of the lines. *)
ClassifyLines ==
    /\ pc = "start"
    /\ image.readable
    /\ candidate_walls' = IF hough.found THEN CandidateWalls(hough.lines, image) ELSE <<>>
    /\ pc' = IF hough.found THEN "candidates" ELSE "walls"
    /\ UNCHANGED <<image, hough, consolidated_walls, max_walls, found_walls,
                   found_doors, found_windows, found_arches, raised, result, others>>

(* The segments as consolidate_wall_segments leaves them: a segment that   *)
(* is alone in its group is passed on as the same object, and line 1021    *)
(* stores its score in it.                                                 *)
AfterConsolidation(line_segments) ==
    LET grouped == group_parallel_lines(line_segments)
    IN  [i \in 1..Len(line_segments) |->
            IF \E g \in 1..Len(grouped) : grouped[g] = <<i>>
            THEN Scored(line_segments[i]) ELSE line_segments[i]]

(* line 92: consolidate_wall_segments(candidate_walls). *)
Consolidate ==
    /\ pc = "candidates"
    /\ consolidated_walls' = consolidate_wall_segments(candidate_walls)
    /\ candidate_walls' = AfterConsolidation(candidate_walls)
    /\ max_walls' = calculate_realistic_wall_count(
                        StructuralWalls(MergeGroups(candidate_walls,
                                                    group_parallel_lines(candidate_walls))))
    /\ pc' = "consolidated"
    /\ UNCHANGED <<image, hough, found_walls, found_doors, found_windows, found_arches, raised, result, others>>

(* lines 95-96: apply_intelligent_filtering(consolidated_walls, gray). *)
Filter ==
    /\ pc = "consolidated"
    /\ found_walls' = apply_intelligent_filtering(consolidated_walls, image)
    /\ pc' = "walls"
    /\ UNCHANGED <<image, hough, candidate_walls, consolidated_walls, max_walls,
                   found_doors, found_windows, found_arches, raised, result, others>>

(* line 99: detect_doors(gray, walls); one of the OpenCV-based methods may *)
(* raise.                                                                  *)
DetectDoors ==
    /\ pc = "walls"
    /\ \E r \in {{}, {"find_door_swings"}, {"find_door_symbols"}} :
          /\ found_doors' = detect_doors(image, found_walls, "find_door_swings" \in r,
                                   "find_door_symbols" \in r)
          /\ raised' = raised \cup r
    /\ pc' = "doors"
    /\ UNCHANGED <<image, hough, candidate_walls, consolidated_walls, max_walls, found_walls,
                   found_windows, found_arches, result, others>>

(* line 100: detect_windows(gray, walls). *)
DetectWindows ==
    /\ pc = "doors"
    /\ \E r \in {{}, {"find_window_rectangles"}} :
          /\ found_windows' = detect_windows(image, found_walls, "find_window_rectangles" \in r)
          /\ raised' = raised \cup r
    /\ pc' = "windows"
    /\ UNCHANGED <<image, hough, candidate_walls, consolidated_walls, max_walls, found_walls,
                   found_doors, found_arches, result, others>>

(* line 101: detect_arches(gray, walls). *)
DetectArches ==
    /\ pc = "windows"
    /\ \E r \in {{}, {"find_wide_openings"}} :
          /\ found_arches' = detect_arches(image, found_walls, "find_wide_openings" \in r)
          /\ raised' = raised \cup r
    /\ pc' = "arches"
    /\ UNCHANGED <<image, hough, candidate_walls, consolidated_walls, max_walls, found_walls,
                   found_doors, found_windows, result, others>>

(* The return if a failure of a detection stage reached lines 123-128. *)
Return_propagating ==
    /\ pc = "arches"
    /\ result' = IF raised = {}
                 THEN [success |-> TRUE, walls |-> found_walls, doors |-> found_doors,
                       windows |-> found_windows, arches |-> found_arches,
                       method |-> "fuzzy_canny_complete",
                       image_stats |-> [width |-> image.width, height |-> image.height],
                       totals |-> [walls |-> Len(found_walls), doors |-> Len(found_doors),
                                   windows |-> Len(found_windows),
                                   arches |-> Len(found_arches)]]
                 ELSE [success |-> FALSE, error |-> "detection failed", walls |-> <<>>]
    /\ pc' = "done"
    /\ UNCHANGED <<image, hough, candidate_walls, consolidated_walls, max_walls, found_walls,
                   found_doors, found_windows, found_arches, raised, others>>

(* lines 103-121: the success dictionary. *)
Return ==
    /\ pc = "arches"
    /\ result' = [success |-> TRUE, walls |-> found_walls, doors |-> found_doors,
                  windows |-> found_windows, arches |-> found_arches,
                  method |-> "fuzzy_canny_complete",
                  image_stats |-> [width |-> image.width, height |-> image.height],
                  totals |-> [walls |-> Len(found_walls), doors |-> Len(found_doors),
                              windows |-> Len(found_windows), arches |-> Len(found_arches)]]
    /\ pc' = "done"
    /\ UNCHANGED <<image, hough, candidate_walls, consolidated_walls, max_walls, found_walls,
                   found_doors, found_windows, found_arches, raised, others>>

---------------------------------------------------------------------------
(* Specifications.                                                         *)

InitAngle == AngleInit /\ DedupIdle /\ GroupIdle /\ ScoreIdle /\ PipeIdle

NextAngle == ClassifyAngle

SpecAngle == InitAngle /\ [][NextAngle]_vars

InitDedup == DedupInit /\ AngleIdle /\ GroupIdle /\ ScoreIdle /\ PipeIdle

NextDedup == Dedup \/ DedupAgain

SpecDedup == InitDedup /\ [][NextDedup]_vars

InitGroup == GroupInit /\ AngleIdle /\ DedupIdle /\ ScoreIdle /\ PipeIdle

NextGroup == Group \/ Regroup

SpecGroup == InitGroup /\ [][NextGroup]_vars

InitScore == ScoreInit /\ AngleIdle /\ DedupIdle /\ GroupIdle /\ PipeIdle

NextScore == Score

SpecScore == InitScore /\ [][NextScore]_vars

(* Two strokes at 2 degrees, 400 px and 410 px long, whose midpoints lie   *)
(* 8 px apart: the first starts at base, the second is shifted by offset.  *)
PairLines(base, offset) ==
    << << base[1], base[2], base[1] + 400, base[2] + 14 >>,
       << base[1] - 5 + offset[1], base[2] + offset[2],
          base[1] + 405 + offset[1], base[2] + 14 + offset[2] >> >>

PairBases == { <<20, 30>>, <<20, 400>>, <<300, 30>>, <<300, 400>> }

PairOffsets == { <<0, 8>>, <<0, -8>>, <<8, 0>>, <<-8, 0>> }

(* HoughLinesP returning the pair, in either order. *)
PairHough ==
    { [found |-> TRUE, lines |-> ls] :
        ls \in UNION { { PairLines(b, o), << PairLines(b, o)[2], PairLines(b, o)[1] >> } :
                         b \in PairBases, o \in PairOffsets } }

(* HoughLinesP returning one stroke around the length limit or off the    *)
(* bands: 100 px and 101 px horizontal and vertical, 60 px at 47 degrees,  *)
(* 99 px, 200 px at 30 and 60 degrees, 100 px at 53 degrees, 102 px at 45  *)
(* degrees, and 120 px and 150 px at 10 degrees (confidence at its floor). *)
EdgeLines ==
    { <<100, 300, 200, 300>>, <<100, 300, 201, 300>>, <<300, 100, 300, 200>>,
      <<300, 100, 300, 201>>, <<100, 100, 141, 144>>,
      <<100, 300, 199, 300>>, <<100, 100, 273, 200>>, <<100, 100, 200, 273>>,
      <<200, 300, 100, 300>>, <<100, 100, 160, 180>>, <<100, 100, 172, 172>>,
      <<100, 100, 218, 121>>, <<100, 100, 248, 126>> }

EdgeHough == { [found |-> TRUE, lines |-> << l >>] : l \in EdgeLines }

(* HoughLinesP returning two long strokes whose midpoints are gap px apart: *)
(* two horizontal ones, two vertical ones, or a horizontal and a vertical   *)
(* one.                                                                     *)
GapHough ==
    { [found |-> TRUE, lines |-> ls] :
        ls \in UNION { { << <<100, 200, 500, 200>>, <<100, 200 + gap, 500, 200 + gap>> >>,
                         << <<200, 100, 200, 500>>, <<200 + gap, 100, 200 + gap, 500>> >>,
                         << <<100, 200, 500, 200>>,
                            <<300 + gap, 50, 300 + gap, 350>> >> } :
                       gap \in {3, 49, 50, 51, 70, 99, 100, 101} } }

(* A page of door symbols and window rectangles around the stroke from     *)
(* (100, 200) to (500, 200): light contours 20 x 40 centred 14, 15 and 17  *)
(* px above it and 10 px above its extension at x = 700, dark contours     *)
(* 30 x 12 centred 19 and 20 px above it and 5 px above its extension at   *)
(* x = 800.                                                                *)
SymbolPage ==
    Page(0, <<0, 0>>, <<0, 0>>, <<>>,
         << Contour(290, 166, 20, 40, 800), Contour(340, 165, 20, 40, 800),
            Contour(390, 163, 20, 40, 800), Contour(690, 170, 20, 40, 800) >>,
         << Contour(385, 175, 30, 12, 360), Contour(435, 174, 30, 12, 360),
            Contour(785, 189, 30, 12, 360) >>)

(* Pages without a text-dense region. *)
PlainPages == {WhitePage, ArcPage, SymbolPage} \cup SplitPages

PairInit ==
    /\ pc = "start"
    /\ image \in PlainPages
    /\ hough \in PairHough \cup EdgeHough \cup GapHough
    /\ candidate_walls = <<>>
    /\ consolidated_walls = <<>>
    /\ max_walls = 0
    /\ found_walls = <<>>
    /\ found_doors = <<>>
    /\ found_windows = <<>>
    /\ found_arches = <<>>
    /\ raised = {}
    /\ result = Pending

InitWalls == PairInit /\ AngleIdle /\ DedupIdle /\ GroupIdle /\ ScoreIdle

(* lines 28-121: detect_walls_fuzzy on a readable image. *)
NextWalls ==
    \/ ClassifyLines
    \/ Consolidate
    \/ Filter
    \/ DetectDoors
    \/ DetectWindows
    \/ DetectArches
    \/ Return

SpecWalls == InitWalls /\ [][NextWalls]_vars

(* Walls for apply_structural_focus alone: horizontal walls 15 px apart,   *)
(* the k-th of a list on row 45 + 15 k.  A "high" wall is a long thick     *)
(* consolidated one (score 0.95), a "medium" wall a raw one of 250 px      *)
(* (score 0.5), a "low" wall a thin one of 120 px (score 0.25).            *)
FocusWall(kind, k) ==
    LET length == IF kind = "high" THEN 450 ELSE IF kind = "medium" THEN 250 ELSE 120
    IN  [start |-> <<100, 45 + 15 * k>>, end |-> <<100 + length, 45 + 15 * k>>,
         length |-> length, angle |-> 0, type |-> "horizontal",
         confidence |-> IF kind = "low" THEN 150 ELSE ConfOne,
         is_sketchy |-> (kind = "low"),
         thickness |-> IF kind = "high" THEN Q(20) ELSE IF kind = "medium" THEN Q(6) ELSE Q(4),
         source |-> IF kind = "high" THEN "consolidated" ELSE "fuzzy_canny"]

MaxHigh == 36

MaxMedium == 4

MaxLow == 1

(* The lists of nh high, nm medium and nl low walls, best first or worst   *)
(* first.                                                                  *)
FocusInputs ==
    { [k \in 1..(c[1] + c[2] + c[3]) |->
          LET j == IF c[4] THEN c[1] + c[2] + c[3] + 1 - k ELSE k
          IN  FocusWall(IF j <= c[1] THEN "high"
                        ELSE IF j <= c[1] + c[2] THEN "medium" ELSE "low", k)] :
        c \in (0..MaxHigh) \X (0..MaxMedium) \X (0..MaxLow) \X BOOLEAN }

InitFocus ==
    /\ pc = "focus_in"
    /\ segments \in FocusInputs
    /\ wall_groups = <<>>
    /\ rep_groups = <<>>
    /\ image = WhitePage
    /\ hough = [found |-> FALSE, lines |-> <<>>]
    /\ candidate_walls = <<>>
    /\ consolidated_walls = <<>>
    /\ max_walls = 0
    /\ found_walls = <<>>
    /\ found_doors = <<>>
    /\ found_windows = <<>>
    /\ found_arches = <<>>
    /\ raised = {}
    /\ result = Pending
    /\ AngleIdle /\ DedupIdle /\ ScoreIdle

(* line 884: apply_structural_focus(thickness_walls), with the cap of line *)
(* 1031.                                                                   *)
StructuralFocus ==
    /\ pc = "focus_in"
    /\ consolidated_walls' = apply_structural_focus(segments)
    /\ max_walls' = calculate_realistic_wall_count(StructuralWalls(segments))
    /\ pc' = "consolidated"
    /\ UNCHANGED <<image, hough, candidate_walls, found_walls, found_doors, found_windows,
                   found_arches, raised, result, groupVars, angleVars, dedupVars, scoreVars>>

(* lines 884 and 96: the structural focus, then the noise filter. *)
NextFocus == StructuralFocus \/ Filter

SpecFocus == InitFocus /\ [][NextFocus]_vars

(* Walls for remove_text_clusters alone: horizontal strokes centred on     *)
(* x = 300.  Those on rows 100 to 120 are pairwise less than 30 px apart;  *)
(* the one on row 80 is within 30 px of the rows 100 and 105 only.         *)
ClusterWall(row, length) ==
    [start |-> <<300 - length \div 2, row>>, end |-> <<300 + length \div 2, row>>,
     length |-> length, angle |-> 0, type |-> "horizontal", confidence |-> ConfOne,
     is_sketchy |-> FALSE, thickness |-> Q(6), source |-> "fuzzy_canny"]

ClusterWalls ==
    << ClusterWall(100, 130), ClusterWall(105, 170), ClusterWall(110, 140),
       ClusterWall(115, 160), ClusterWall(120, 150), ClusterWall(80, 200) >>

(* The first five or all six of the walls, in every order. *)
ClusterInputs ==
    UNION { { [k \in 1..n |-> ClusterWalls[p[k]]] :
                p \in {q \in [1..n -> 1..n] : \A a, b \in 1..n : q[a] = q[b] => a = b} } :
            n \in {5, 6} }

InitClusters ==
    /\ pc = "clusters_in"
    /\ segments \in ClusterInputs
    /\ wall_groups = <<>>
    /\ rep_groups = <<>>
    /\ AngleIdle /\ DedupIdle /\ ScoreIdle /\ PipeIdle

(* line 1123: remove_text_clusters(candidate_walls). *)
RemoveTextClusters ==
    /\ pc = "clusters_in"
    /\ found_walls' = remove_text_clusters(segments)
    /\ pc' = "clusters_out"
    /\ UNCHANGED <<image, hough, candidate_walls, consolidated_walls, max_walls, found_doors,
                   found_windows, found_arches, raised, result, groupVars, angleVars,
                   dedupVars, scoreVars>>

NextClusters == RemoveTextClusters

SpecClusters == InitClusters /\ [][NextClusters]_vars

Init == PipeInit /\ AngleIdle /\ DedupIdle /\ GroupIdle /\ ScoreIdle

Next ==
    \/ ImreadFails
    \/ ClassifyLines
    \/ Consolidate
    \/ Filter
    \/ DetectDoors
    \/ DetectWindows
    \/ DetectArches
    \/ Return

Spec == Init /\ [][Next]_vars

---------------------------------------------------------------------------
(* Claims.                                                                 *)
BandCount(c) ==
    (IF c.is_horizontal THEN 1 ELSE 0) + (IF c.is_vertical THEN 1 ELSE 0)
        + (IF c.is_diagonal THEN 1 ELSE 0)

(* C1: for every angle in [-180,180] classify_angle_fuzzy sets at most one *)
(* of is_horizontal, is_vertical, is_diagonal.                             *)
C1_AngleExclusive == pc = "angle_out" => BandCount(cls) <= 1

C1_Witness == pc = "angle_out" /\ angle = 47 /\ cls.is_diagonal /\ BandCount(cls) = 1

(* C3: running filter_duplicate_doors on its own output returns that       *)
(* output unchanged, for every input list and order.                       *)
C3_DedupFixedPoint == pc = "dedup_twice" => deduped_again = deduped

(* C4: after deduplication no two output openings are less than 30 px      *)
(* apart, and an output opening has the highest confidence among the       *)
(* input openings within 30 px of it.                                      *)
C4_OnePerCluster ==
    pc = "dedup_out" =>
        /\ \A i, j \in 1..Len(deduped) :
              i # j => ~Within30(deduped[i].position, deduped[j].position)
        /\ \A i \in 1..Len(deduped) : \A k \in 1..Len(openings) :
              Within30(deduped[i].position, openings[k].position)
                  => openings[k].confidence <= deduped[i].confidence

(* The members of all groups, as a bag of positions in `lines`. *)
RECURSIVE Members(_)
Members(gs) == IF gs = <<>> THEN <<>> ELSE Head(gs) \o Members(Tail(gs))

(* The positions reachable from S by chains of are_parallel_and_close. *)
RECURSIVE Chained(_, _)
Chained(ls, S) ==
    LET S2 == S \cup {j \in 1..Len(ls) :
                        \E i \in S : are_parallel_and_close(ls[i], ls[j])
                                       \/ are_parallel_and_close(ls[j], ls[i])}
    IN  IF S2 = S THEN S ELSE Chained(ls, S2)

GroupOf(gs, i) == CHOOSE g \in 1..Len(gs) : \E k \in 1..Len(gs[g]) : gs[g][k] = i

(* C6: group_parallel_lines on one representative per group of a previous  *)
(* run yields only singleton groups, one per representative.               *)
C6_RegroupSingletons ==
    pc = "regrouped" =>
        /\ Len(rep_groups) = Len(wall_groups)
        /\ \A g \in 1..Len(rep_groups) : Len(rep_groups[g]) = 1

C6_Witness ==
    /\ pc = "regrouped"
    /\ Len(wall_groups) >= 2
    /\ \E g \in 1..Len(wall_groups) : Len(wall_groups[g]) >= 2
    /\ Len(rep_groups) = Len(wall_groups)

(* C7: every input segment is in exactly one group, no group is empty, and *)
(* two segments share a group exactly when a chain of are_parallel_and_    *)
(* close pairs connects them.                                              *)
C7_GroupsAreComponents ==
    pc = "group_out" =>
        /\ \A i \in 1..Len(segments) :
              Cardinality({k \in 1..Len(Members(wall_groups)) : Members(wall_groups)[k] = i}) = 1
        /\ Len(Members(wall_groups)) = Len(segments)
        /\ \A g \in 1..Len(wall_groups) : wall_groups[g] # <<>>
        /\ \A i, j \in 1..Len(segments) :
              (GroupOf(wall_groups, i) = GroupOf(wall_groups, j)) <=> (j \in Chained(segments, {i}))

C7_Witness ==
    /\ pc = "group_out"
    /\ \E g \in 1..Len(wall_groups) :
          /\ Len(wall_groups[g]) = 3
          /\ ~are_parallel_and_close(segments[wall_groups[g][1]], segments[wall_groups[g][3]])

(* C8: raising a wall's length bucket or thickness bucket, or making it    *)
(* perimeter or consolidated, never lowers its structural score.           *)
C8_ScoreMonotone == pc = "score_out" => score_b >= score_a

C8_Witness ==
    /\ pc = "score_out"
    /\ ThicknessBucket(wall_b.thickness) > ThicknessBucket(wall_a.thickness)
    /\ wall_a.thickness > Q(8)
    /\ score_b > score_a

(* C2: every wall of a successful result has a thickness within [3,25],    *)
(* whether it was merged from a group or passed on as a raw candidate.     *)
C2_ThicknessBound ==
    (pc = "done" /\ result.success) =>
        \A i \in 1..Len(result.walls) :
            Q(3) <= result.walls[i].thickness /\ result.walls[i].thickness <= Q(25)

C2_Witness ==
    /\ pc = "done"
    /\ result.success
    /\ Len(candidate_walls) = 2
    /\ calculate_group_thickness_unclamped(candidate_walls) > Q(25)
    /\ \E i \in 1..Len(result.walls) :
          /\ result.walls[i].source = "consolidated"
          /\ result.walls[i].thickness = Q(25)

(* C5: the walls of the result never outnumber the adaptive cap, the doors *)
(* returned by detect_doors never outnumber 20 and the arches returned by  *)
(* detect_arches never outnumber 15, also when a detection method raised.  *)
C5_CapsRespected ==
    /\ (pc \in {"walls", "doors", "windows", "arches", "done"} /\ hough.found)
          => Len(found_walls) <= max_walls
    /\ pc \in {"doors", "windows", "arches", "done"} => Len(found_doors) <= 20
    /\ pc \in {"arches", "done"} => Len(found_arches) <= 15

(* C9: in a successful result every wall's confidence and structural score *)
(* and every door, window and arch confidence lies in [0,1].               *)
C9_UnitInterval ==
    (pc = "done" /\ result.success) =>
        /\ \A i \in 1..Len(result.walls) :
              /\ 0 <= result.walls[i].confidence
              /\ result.walls[i].confidence <= ConfOne
              /\ 0 <= result.walls[i].structural_score
              /\ result.walls[i].structural_score <= ScoreOne
        /\ \A i \in 1..Len(result.doors) :
              0 <= result.doors[i].confidence /\ result.doors[i].confidence <= ConfOne
        /\ \A i \in 1..Len(result.windows) :
              0 <= result.windows[i].confidence /\ result.windows[i].confidence <= ConfOne
        /\ \A i \in 1..Len(result.arches) :
              0 <= result.arches[i].confidence /\ result.arches[i].confidence <= ConfOne

C9_Witness ==
    /\ pc = "done"
    /\ result.success
    /\ \E i \in 1..Len(result.walls) :
          /\ result.walls[i].source = "consolidated"
          /\ result.walls[i].confidence = ConfOne
          /\ result.walls[i].structural_score = ScoreOne
          /\ calculate_structural_importance_uncapped(result.walls[i]) > ScoreOne
    /\ result.doors # <<>>

(* C10: every result carries a boolean success flag, and a failure result  *)
(* carries an error message and empty wall, door, window and arch          *)
(* collections.                                                            *)
C10_FailureShape ==
    pc = "done" =>
        /\ "success" \in DOMAIN result
        /\ result.success \in BOOLEAN
        /\ ~result.success =>
              /\ "error" \in DOMAIN result
              /\ \A k \in {"walls", "doors", "windows", "arches"} :
                    k \in DOMAIN result /\ result[k] = <<>>

C12_DegradePerMethod ==
    pc = "doors" =>
        LET door_openings == find_door_openings(found_walls, image)
            door_swings == IF "find_door_swings" \in raised THEN <<>> ELSE image.swings
            door_symbols == IF "find_door_symbols" \in raised THEN <<>>
                            ELSE find_door_symbols(image, found_walls)
        IN  found_doors = CapOpenings(
                filter_duplicate_doors(door_openings \o door_swings \o door_symbols), 20)

(* C13: a failure inside door, window or arch detection does not reach the *)
(* pipeline boundary: the result is a success whose walls are those the    *)
(* noise filter makes of the consolidated walls and the image alone.       *)
C13_FailuresSwallowed ==
    (pc = "done" /\ raised # {}) =>
        /\ result.success
        /\ result.walls =
              IF hough.found
              THEN apply_intelligent_filtering(consolidated_walls, image)
              ELSE <<>>

C13_Witness ==
    /\ pc = "done"
    /\ raised = {"find_door_swings", "find_window_rectangles", "find_wide_openings"}
    /\ result.success
    /\ Len(result.walls) >= 2

(* C14: consolidation and the later stages leave the candidate segments    *)
(* as the candidate loop built them, with the same fields and values.      *)
C14_CandidatesUntouched ==
    (/\ pc \in {"consolidated", "walls", "doors", "windows", "arches", "done"}
     /\ image.readable
     /\ hough.found) =>
        candidate_walls = CandidateWalls(hough.lines, image)

(* C15: two candidate segments of lengths 400 and 410 at angle 2 with       *)
(* midpoints 8 px apart, on a page without a text-dense region, leave the   *)
(* wall pipeline as exactly one wall: consolidated, of thickness 8,         *)
(* horizontal, with the endpoints of the 410 px segment.                    *)
C15_PairBecomesOneWall ==
    (/\ pc = "walls"
     /\ image.readable /\ image.text = <<0, 0>>
     /\ Len(candidate_walls) = 2
     /\ {candidate_walls[1].length, candidate_walls[2].length} = {400, 410}
     /\ candidate_walls[1].angle = 2 /\ candidate_walls[2].angle = 2
     /\ line_to_line_distance(candidate_walls[1], candidate_walls[2]) = Q(8))
    => /\ Len(found_walls) = 1
       /\ found_walls[1].source = "consolidated"
       /\ found_walls[1].thickness = Q(8)
       /\ found_walls[1].type = "horizontal"
       /\ \E i \in 1..2 : /\ candidate_walls[i].length = 410
                          /\ found_walls[1].start = candidate_walls[i].start
                          /\ found_walls[1].end = candidate_walls[i].end

C15_Witness ==
    /\ pc = "walls"
    /\ Len(candidate_walls) = 2
    /\ candidate_walls[1].length = 400 /\ candidate_walls[2].length = 410
    /\ candidate_walls[1].angle = 2 /\ candidate_walls[2].angle = 2
    /\ line_to_line_distance(candidate_walls[1], candidate_walls[2]) = Q(8)
    /\ Len(found_walls) = 1
    /\ found_walls[1].length = 410

(* C16: the noise filter runs before structural scoring and the cap: every  *)
(* wall that was scored and counted for the cap is a wall the noise filter  *)
(* keeps.                                                                   *)
C16_NoiseFilterBeforeScoring ==
    (pc \in {"walls", "doors", "windows", "arches", "done"} /\ image.readable /\ hough.found)
    => \A i \in 1..Len(consolidated_walls) :
           \E j \in 1..Len(found_walls) : found_walls[j] = consolidated_walls[i]

(* C17: two segments are parallel and close, and so share a group, exactly  *)
(* when their angles differ by at most 15 degrees (with the 360-degree      *)
(* wraparound) and their midpoints are closer than 50, 30 or 15 px for an   *)
(* average length above 500, above 200 or less; coincident midpoints        *)
(* included.                                                                *)
C17_CloseIffBelowThreshold ==
    (pc \in {"group_out", "regrouped"} /\ Len(segments) = 2)
    => LET diff == Abs(segments[1].angle - segments[2].angle)
           angle_diff == IF diff > 180 THEN 360 - diff ELSE diff
           total == segments[1].length + segments[2].length
           threshold == IF total > 1000 THEN 50 ELSE IF total > 400 THEN 30 ELSE 15
       IN  (wall_groups = << <<1, 2>> >>)
           <=> (/\ angle_diff <= 15
                /\ line_to_line_distance(segments[1], segments[2]) < Q(threshold))

(* C18: merge_collinear_segments returns a group of one segment unchanged;  *)
(* of a larger group it makes exactly one wall with the endpoints, length,  *)
(* angle and type of the longest member, the largest pairwise midpoint      *)
(* distance clamped to [4,25] as thickness, min(1.0, 1.2 x the longest      *)
(* member's confidence) as confidence, consolidated and not sketchy.        *)
C18_MergeShape ==
    (pc = "regrouped")
    => \A g \in 1..Len(wall_groups) :
          LET line_group == [k \in 1..Len(wall_groups[g]) |-> segments[wall_groups[g][k]]]
              merged == merge_collinear_segments(line_group)
              n == Len(line_group)
          IN  IF n = 1 THEN merged = line_group
              ELSE /\ Len(merged) = 1
                   /\ \E k \in 1..n :
                         /\ \A j \in 1..n : line_group[j].length <= line_group[k].length
                         /\ merged[1].start = line_group[k].start
                         /\ merged[1].end = line_group[k].end
                         /\ merged[1].length = line_group[k].length
                         /\ merged[1].angle = line_group[k].angle
                         /\ merged[1].type = line_group[k].type
                         /\ 10 * merged[1].confidence
                               = IF 12 * line_group[k].confidence > 10 * ConfOne
                                 THEN 10 * ConfOne ELSE 12 * line_group[k].confidence
                   /\ \E i, j \in 1..n :
                         /\ i # j
                         /\ \A a, b \in 1..n :
                               line_to_line_distance(line_group[a], line_group[b])
                                  <= line_to_line_distance(line_group[i], line_group[j])
                         /\ LET d == line_to_line_distance(line_group[i], line_group[j])
                            IN  merged[1].thickness
                                  = IF d < Q(4) THEN Q(4) ELSE IF d > Q(25) THEN Q(25) ELSE d
                   /\ merged[1].source = "consolidated"
                   /\ ~merged[1].is_sketchy

C18_Witness ==
    /\ pc = "regrouped"
    /\ \E g \in 1..Len(wall_groups) :
          /\ Len(wall_groups[g]) > 1
          /\ segments[wall_groups[g][1]].length < segments[wall_groups[g][2]].length
    /\ \E g \in 1..Len(wall_groups) : Len(wall_groups[g]) = 1

(* C19: a raw segment becomes a candidate wall exactly when its angle       *)
(* matches one of the three bands and its length is not shorter than        *)
(* 100 px.                                                                  *)
C19_CandidateIffBandAndLength ==
    (pc \in {"candidates", "consolidated", "walls"} /\ hough.found /\ Len(hough.lines) = 1)
    => LET line == hough.lines[1]
           dx == line[3] - line[1]
           dy == line[4] - line[2]
           c == classify_angle_fuzzy(Arctan2Deg(dy, dx))
       IN  (Len(candidate_walls) = 1)
           <=> (/\ c.is_horizontal \/ c.is_vertical \/ c.is_diagonal
                /\ dx * dx + dy * dy >= 100 * 100)

(* C20: inside a band the confidence is 1.0 at the band center, falls       *)
(* linearly with the deviation from the center, and reaches its floor (0.5  *)
(* horizontal and vertical, 0.4 diagonal) at the band edge and not before:  *)
(* it lies on the straight line from 1.0 at the center to the floor at the  *)
(* edge, and is above the floor inside the band.                            *)
C20_LinearToFloorAtEdge ==
    (pc = "angle_out" /\ BandCount(cls) = 1)
    => LET m == Abs(angle)
           deviation == IF cls.is_horizontal THEN Min(m, Abs(m - 180))
                        ELSE IF cls.is_vertical THEN Abs(m - 90)
                        ELSE Min(Abs(m - 45), Abs(m - 135))
           half_width == IF cls.is_diagonal THEN 10 ELSE 15
           floor == IF cls.is_diagonal THEN (4 * ConfOne) \div 10 ELSE ConfOne \div 2
       IN  /\ deviation = 0 => cls.confidence = ConfOne
           /\ half_width * cls.confidence
                  = half_width * ConfOne - (ConfOne - floor) * deviation
           /\ deviation < half_width => cls.confidence > floor

(* C21: a wall receives the +0.2 perimeter contribution exactly when its    *)
(* length exceeds 200 px and one of its endpoints is within the edge        *)
(* threshold (50 px) of the left, top, right or bottom border of the image. *)
C21_PerimeterFourBorders ==
    (pc = "score_out")
    => LET near_border ==
               \/ wall_a.start[1] < 50 \/ wall_a.end[1] < 50
               \/ wall_a.start[2] < 50 \/ wall_a.end[2] < 50
               \/ wall_a.start[1] > ImgWidth - 50 \/ wall_a.end[1] > ImgWidth - 50
               \/ wall_a.start[2] > ImgHeight - 50 \/ wall_a.end[2] > ImgHeight - 50
           rest == LengthScore(wall_a.length) + ThicknessScore(wall_a.thickness)
                     + (IF wall_a.source = "consolidated" THEN 750 ELSE 0)
                     + wall_a.confidence
       IN  score_a = Min(ScoreOne,
                         rest + (IF near_border /\ wall_a.length > 200 THEN 600 ELSE 0))

(* C22: for every non-empty list of scored walls the adaptive cap of        *)
(* calculate_realistic_wall_count lies between 15 and 35 inclusive          *)
(* (apply_structural_focus returns early on an empty list and computes no   *)
(* cap; on an empty scored list the cap is 0).                              *)
C22_CapRange ==
    (pc = "consolidated")
    => IF StructuralWalls(segments) = <<>> THEN max_walls = 0
       ELSE 15 <= max_walls /\ max_walls <= 35

C22_Witness ==
    /\ pc = "consolidated"
    /\ max_walls = 35
    /\ Len(StructuralWalls(segments)) > 35
    /\ Len(consolidated_walls) = 35

C24_DenseSetsThinned ==
    (pc = "clusters_out")
    => \A S \in SUBSET (1..Len(segments)) :
          (/\ Cardinality(S) > 4
           /\ \A a, b \in S :
                 /\ Abs(segments[a].angle - segments[b].angle) < 10
                 /\ wall_distance(segments[a], segments[b]) < Q(30))
          => LET left == {a \in S : \E k \in 1..Len(found_walls) :
                                        found_walls[k] = segments[a]}
             IN  /\ Cardinality(left) <= 2
                 /\ \A a \in left : \A b \in S \ left :
                       segments[b].length <= segments[a].length

C26_CutoffNeverBites ==
    (pc = "consolidated" /\ hough.found)
    => LET merged == MergeGroups(candidate_walls, group_parallel_lines(candidate_walls))
       IN  /\ \A i \in 1..Len(merged) :
                 /\ merged[i].length > 100
                 /\ merged[i].thickness >= Q(4)
                 /\ 2 * merged[i].confidence >= ConfOne
                 /\ 10 * calculate_structural_importance(merged[i]) > 3 * ScoreOne
           /\ Len(consolidated_walls) = Min(Len(merged), max_walls)
           /\ \A i \in 1..Len(merged) :
                 Len(merged) <= max_walls
                    => \E k \in 1..Len(consolidated_walls) :
                          consolidated_walls[k] = Scored(merged[i])

C26_Witness ==
    /\ pc = "consolidated"
    /\ Len(consolidated_walls) = 1
    /\ consolidated_walls[1].length <= 150
    /\ 2 * consolidated_walls[1].confidence = ConfOne
    /\ 20 * consolidated_walls[1].structural_score = 7 * ScoreOne

(* C27: every wall of the final output satisfies the quality filter,        *)
(* (confidence > 0.8 and length > 120) or length > 200: no final wall has   *)
(* length 120 or less, and none has length at most 200 with confidence at   *)
(* most 0.8, whatever its structural score.                                 *)
C27_QualityOfOutput ==
    (pc = "done" /\ result.success)
    => \A i \in 1..Len(result.walls) :
          /\ \/ (10 * result.walls[i].confidence > 8 * ConfOne /\ result.walls[i].length > 120)
             \/ result.walls[i].length > 200
          /\ result.walls[i].length > 120
          /\ ~(result.walls[i].length <= 200 /\ 10 * result.walls[i].confidence <= 8 * ConfOne)

C27_Witness ==
    /\ pc = "done"
    /\ result.success
    /\ result.walls = <<>>
    /\ Len(consolidated_walls) = 1
    /\ consolidated_walls[1].length > 120
    /\ consolidated_walls[1].length <= 200
    /\ 10 * consolidated_walls[1].confidence <= 8 * ConfOne
    /\ 10 * consolidated_walls[1].structural_score > 3 * ScoreOne

(* C28: the partition made by group_parallel_lines does not depend on the   *)
(* order of the input: for every permutation of the input list the groups,  *)
(* compared as sets of segments, are those of the list as given.            *)
C28_GroupsOrderFree ==
    (pc = "group_out")
    => LET n == Len(segments)
           AsSets(lines, groups) ==
               { {lines[groups[g][k]] : k \in 1..Len(groups[g])} : g \in 1..Len(groups) }
       IN  \A p \in {q \in [1..n -> 1..n] : \A a, b \in 1..n : q[a] = q[b] => a = b} :
              LET permuted == [k \in 1..n |-> segments[p[k]]]
              IN  AsSets(permuted, group_parallel_lines(permuted))
                     = AsSets(segments, wall_groups)

C28_Witness ==
    /\ pc = "group_out"
    /\ Len(segments) = 3
    /\ Len(wall_groups) = 2
    /\ wall_groups[1] = <<1, 3>>
    /\ segments[1] # segments[3]

C30_NearTheInfiniteLine ==
    LET centre(c) == <<c.x + c.w \div 2, c.y + c.h \div 2>>
        line_dist_below(p, w, t) ==
            IF w.start = w.end THEN FALSE
            ELSE IF w.start[2] = w.end[2] THEN Abs(p[2] - w.start[2]) < t
            ELSE IF w.start[1] = w.end[1] THEN Abs(p[1] - w.start[1]) < t
            ELSE point_to_line_distance_below(p[1], p[2], w, t)
        near(c, t) == \E i \in 1..Len(found_walls) : line_dist_below(centre(c), found_walls[i], t)
        at(found, type, c) ==
            \E i \in 1..Len(found) :
                found[i].type = type /\ found[i].position = <<4 * centre(c)[1], 4 * centre(c)[2]>>
        door_shaped(c) ==
            200 < c.area /\ c.area < 2000 /\ c.w > 0 /\ 2 * c.h > 3 * c.w /\ c.h < 3 * c.w
        window_shaped(c) ==
            50 < c.area /\ c.area < 1500 /\ c.h > 0 /\ 2 * c.w > c.h /\ c.w < 5 * c.h
        lights == image.light_contours
        darks == image.dark_contours
        door_candidates ==
            find_door_openings(found_walls, image) \o image.swings
                \o find_door_symbols(image, found_walls)
        window_candidates ==
            find_window_rectangles(image, found_walls)
                \o find_window_parallel_lines(image, found_walls)
        alone(cands, c) ==
            Cardinality({i \in 1..Len(cands) :
                            Within30(cands[i].position,
                                     <<4 * centre(c)[1], 4 * centre(c)[2]>>)}) <= 1
    IN  /\ (pc = "doors" /\ raised \cap {"find_door_swings", "find_door_symbols"} = {}) =>
              \A k \in 1..Len(lights) :
                  /\ at(found_doors, "symbol", lights[k])
                         => door_shaped(lights[k]) /\ near(lights[k], 15)
                  /\ ( /\ door_shaped(lights[k]) /\ near(lights[k], 15)
                       /\ alone(door_candidates, lights[k])
                       /\ Len(door_candidates) <= 20 )
                         => at(found_doors, "symbol", lights[k])
        /\ (pc = "windows" /\ "find_window_rectangles" \notin raised) =>
              \A k \in 1..Len(darks) :
                  /\ at(found_windows, "dark_rectangle", darks[k])
                         => window_shaped(darks[k]) /\ near(darks[k], 20)
                  /\ ( /\ window_shaped(darks[k]) /\ near(darks[k], 20)
                       /\ alone(window_candidates, darks[k]) )
                         => at(found_windows, "dark_rectangle", darks[k])

C30_Witness ==
    /\ pc = "windows"
    /\ image = SymbolPage
    /\ \E i \in 1..Len(found_walls) :
          /\ found_walls[i].start = <<100, 200>>
          /\ found_walls[i].end = <<500, 200>>
    /\ \A i \in 1..Len(found_walls) : found_walls[i].start[2] = found_walls[i].end[2]
    /\ \A i \in 1..Len(found_walls) : found_walls[i].start[2] \in {200, 270}
    /\ {found_doors[i].position : i \in {j \in 1..Len(found_doors) : found_doors[j].type = "symbol"}}
          = {<<1200, 744>>, <<2800, 760>>}
    /\ {found_windows[i].position :
            i \in {j \in 1..Len(found_windows) : found_windows[j].type = "dark_rectangle"}}
          = {<<1600, 724>>, <<3200, 780>>}

====
